---- MODULE Spec2Model ----
(***************************************************************************)
(* signal-kernel: the reactive graph (signal / computed / effect), the     *)
(* two-phase scheduler with batch / atomic / rollback, and the async cell  *)
(* (fromPromise).                                                          *)
(*                                                                         *)
(* The library runs on one thread and every public call runs to            *)
(* completion, so each public call is one action.  The library code is     *)
(* written as operators that take the whole runtime state as a record g    *)
(* and return the next one; g.err carries a pending exception and g.ret    *)
(* the value returned by the call; g.trace lists what the call did.        *)
(***************************************************************************)
EXTENDS Integers, Sequences, FiniteSets, TLC

VARIABLES
  value,            \* node.value of signals and computeds
  stale,            \* computed node.stale
  hasValue,         \* computed node.hasValue
  computing,        \* computed node.computing
  deps,             \* node.deps
  subs,             \* node.subs, in Set insertion order
  disposed,         \* EffectInstance.disposed
  registry,         \* effect nodes that carry an EffectSlot
  currentObserver,  \* graph: currentObserver
  computeQ,         \* scheduler: computeQ, in Set insertion order
  effectQ,          \* scheduler: effectQ, in Set insertion order
  scheduled,        \* scheduler: scheduled
  batchDepth,       \* scheduler: batchDepth
  atomicDepth,      \* scheduler: atomicDepth
  atomicLogs,       \* scheduler: atomicLogs, a stack of write logs
  muted,            \* scheduler: muted
  microtasks,       \* flushJobsTwoPhase callbacks waiting in the microtask queue
  handles,          \* detach functions returned by signal.subscribe
  cleanups,         \* EffectInstance.cleanups, oldest first
  activeEffect,     \* effect: activeEffect
  currentToken,     \* fromPromise: currentToken
  currentController,\* fromPromise: the run whose controller is current, 0 for null
  aborted,          \* runs whose controller.signal.aborted is true
  promise,          \* state of the promise that makePromise returned to each run
  options,          \* fromPromise: options
  currentSource,    \* createResource: currentSource
  initialized       \* createResource: initialized

coreVars == <<value, stale, hasValue, computing, deps, subs, disposed, registry,
              currentObserver, computeQ, effectQ, scheduled, batchDepth,
              atomicDepth, atomicLogs, muted, microtasks, handles,
              cleanups, activeEffect>>

asyncVars == <<currentToken, currentController, aborted, promise, options,
               currentSource, initialized>>

vars == <<coreVars, asyncVars>>

----------------------------------------------------------------------------
(* Bounds *)

MaxVal == 2          \* signals hold 0..MaxVal
MaxCallDepth == 6    \* recompute calls on the stack before it overflows
MaxMicrotasks == 1   \* flush microtasks waiting at one time
MaxSkew == 1         \* how far atomicDepth may fall below zero
GuardLimit == 4      \* iterations of the flush loop (10000 in the source)
MaxRuns == 3         \* runs that one async cell starts
MaxOpen == 2         \* atomics awaiting their promises at one time

(* The program under the runtime: two signals, a diamond of computeds on a, *)
(* two computeds on x that form a cycle for some x, three effects, and one  *)
(* async cell with its three signals, its observer e4, and the effect res   *)
(* that makes the cell a resource of the source x.  Four plain jobs carry   *)
(* the priorities -1, 0, 1 and none.  The effect e5 registers cleanups and  *)
(* copies a to x in a batch; the effect e6 reads x.                         *)

Signals   == {"a", "x"}
Cell      == {"cell.value", "cell.status", "cell.error"}
Computeds == {"b", "c", "d", "p", "q", "s"}
Effects   == {"e1", "e2", "e3", "e4", "e5", "e6", "e7", "e8", "res"}
Cleanups  == {"k1", "k2", "k3"}         \* the cleanup callbacks of e5
\* the jobs that differ in priority only
Ranked    == {"jm", "j0", "j1", "jn"}
\* the jobs of kind 'computed': cj only runs, cs schedules cj, cc itself
ComputedJobs == {"cj", "cs", "cc"}
\* the jobs of kind 'effect' that schedule: es schedules cj, en ef, el itself
EffectJobs   == {"es", "en", "ef", "el"}
Jobs      == Ranked \cup ComputedJobs \cup EffectJobs  \* objects handed to scheduleJob
Nodes     == Signals \cup Cell \cup Computeds \cup Effects
Vals      == 0..MaxVal
Runs      == 1..MaxRuns
Errors    == {"Boom", "AbortError"}   \* what a promise rejects with, by name

Null  == "null"
None  == "none"
Undef == 0 - 1   \* undefined, outside Vals

Kind(n) == IF n \in Signals \cup Cell THEN "signal"
           ELSE IF n \in Computeds THEN "computed" ELSE "effect"

Remove(s, n) == SelectSeq(s, LAMBDA m : m # n)
Range(s) == {s[i] : i \in 1..Len(s)}
AddLast(s, n) == IF n \in Range(s) THEN s ELSE Append(s, n)

Throw(g, e) == [g EXCEPT !.err = e]
Ret(g, v)   == [g EXCEPT !.ret = v]
Log(g, ev)  == [g EXCEPT !.trace = Append(@, ev)]

----------------------------------------------------------------------------
(* graph *)

link(g, from, to) ==
  IF Kind(from) = "signal" THEN Throw(g, "InvalidTopology")
  ELSE IF to \in g.deps[from] THEN g
  ELSE [g EXCEPT !.deps[from] = @ \cup {to},
                 !.subs[to] = AddLast(@, from)]

\* unlink that forgets to delete the observer from the subs of its source
unlinkDepsOnly(g, from, to) ==
  [g EXCEPT !.deps[from] = @ \ {to}]

unlink(g, from, to) ==
  [g EXCEPT !.deps[from] = @ \ {to},
            !.subs[to] = Remove(@, from)]

track(g, dep) ==
  IF g.currentObserver = Null THEN g ELSE link(g, g.currentObserver, dep)

RECURSIVE unlinkEach(_, _, _)
\* for (const d of [...node.deps]) unlink(node, d)
unlinkEach(g, n, ds) ==
  IF ds = {} THEN g
  ELSE LET d == CHOOSE m \in ds : TRUE
       IN unlinkEach(unlink(g, n, d), n, ds \ {d})

unlinkAllDeps(g, n) == unlinkEach(g, n, g.deps[n])

----------------------------------------------------------------------------
(* scheduler: scheduleJob *)

\* j.kind ?? 'effect': an EffectInstance has no kind until a flush sets it
JobKind(j) == IF j \in ComputedJobs THEN "computed" ELSE "effect"

\* j.disposed; the plain jobs have no such field
jobDisposed(g, j) == IF j \in Jobs THEN FALSE ELSE g.disposed[j]

\* (j.priority ?? 0); no EffectInstance has a priority
priority(j) ==
  CASE j = "jm" -> 0 - 1
    [] j = "j1" -> 1
    [] OTHER -> 0

scheduleJob(g, j) ==
  IF jobDisposed(g, j) THEN g
  ELSE IF g.muted > 0 THEN g
  ELSE LET g1 == IF JobKind(j) = "computed"
                 THEN [g EXCEPT !.computeQ = AddLast(@, j)]
                 ELSE [g EXCEPT !.effectQ = AddLast(@, j)]
       IN IF ~g1.scheduled /\ g1.batchDepth = 0
          THEN [g1 EXCEPT !.scheduled = TRUE, !.microtasks = @ + 1]
          ELSE g1

\* Effects.get(sub)?.schedule()
scheduleEffect(g, e) == IF e \in g.registry THEN scheduleJob(g, e) ELSE g

----------------------------------------------------------------------------
(* computed: markStale *)

RECURSIVE markStale(_, _)
RECURSIVE markStaleSubs(_, _, _)

markStaleSubs(g, ss, i) ==
  IF i > Len(ss) THEN g
  ELSE LET sub == ss[i]
           g1 == IF Kind(sub) = "computed" THEN markStale(g, sub)
                 ELSE IF Kind(sub) = "effect" THEN scheduleEffect(g, sub)
                 ELSE g
       IN markStaleSubs(g1, ss, i + 1)

markStale(g, node) ==
  IF Kind(node) # "computed" THEN g
  ELSE IF g.stale[node] THEN g
  ELSE markStaleSubs([g EXCEPT !.stale[node] = TRUE], g.subs[node], 1)

----------------------------------------------------------------------------
(* scheduler: the atomic write log *)

inAtomic(g) == g.atomicDepth > 0

LogHas(log, node) == \E i \in 1..Len(log) : log[i][1] = node

recordAtomicWrite(g, node, prevValue) ==
  IF Len(g.atomicLogs) = 0 THEN g
  ELSE LET top == Len(g.atomicLogs)
       IN IF LogHas(g.atomicLogs[top], node) THEN g
          ELSE [g EXCEPT !.atomicLogs[top] = Append(@, <<node, prevValue>>)]

----------------------------------------------------------------------------
(* signal *)

signalGet(g, s) == Ret(track(g, s), g.value[s])

RECURSIVE notifySubs(_, _, _)
\* the loop over node.subs at the end of signal.set
notifySubs(g, ss, i) ==
  IF i > Len(ss) THEN g
  ELSE LET sub == ss[i]
           g1 == IF Kind(sub) = "effect" THEN scheduleEffect(g, sub)
                 ELSE IF Kind(sub) = "computed" THEN markStale(g, sub)
                 ELSE g
       IN notifySubs(g1, ss, i + 1)

\* Object.is on the values of the program
defaultEquals(a, b) == a = b

\* set without the test of equals
signalSetUnequal(g, s, nxtVal) ==
  IF Len(g.subs[s]) = 0
  THEN [(IF inAtomic(g) THEN recordAtomicWrite(g, s, g.value[s]) ELSE g)
          EXCEPT !.value[s] = nxtVal]
  ELSE notifySubs([(IF inAtomic(g) THEN recordAtomicWrite(g, s, g.value[s]) ELSE g)
                     EXCEPT !.value[s] = nxtVal],
                  g.subs[s], 1)

signalSet(g, s, nxtVal) ==
  IF defaultEquals(g.value[s], nxtVal) THEN g
  ELSE IF Len(g.subs[s]) = 0
  THEN [(IF inAtomic(g) THEN recordAtomicWrite(g, s, g.value[s]) ELSE g)
          EXCEPT !.value[s] = nxtVal]
  ELSE notifySubs([(IF inAtomic(g) THEN recordAtomicWrite(g, s, g.value[s]) ELSE g)
                     EXCEPT !.value[s] = nxtVal],
                  g.subs[s], 1)

----------------------------------------------------------------------------
(* computed *)

\* p returns q.  q reads x: for x = 1 it returns p, for x = 2 it returns
\* itself, otherwise x.

RECURSIVE computedGet(_, _)
RECURSIVE recompute(_, _)
RECURSIVE computedFn(_, _)

\* the user functions of the computeds
computedFn(g, c) ==
  CASE c = "b" -> LET r == signalGet(g, "a") IN Ret(r, r.ret + 1)
    [] c = "c" -> LET r == signalGet(g, "a") IN Ret(r, r.ret * 10)
    [] c = "d" -> LET r1 == computedGet(g, "b") IN
                  IF r1.err # None THEN r1
                  ELSE LET r2 == computedGet(r1, "c") IN
                       IF r2.err # None THEN r2
                       ELSE Ret(r2, r1.ret + r2.ret)
    [] c = "p" -> computedGet(g, "q")
    [] c = "q" -> LET r == signalGet(g, "x") IN
                  IF r.ret = 1 THEN computedGet(r, "p")
                  ELSE IF r.ret = 2 THEN computedGet(r, "q")
                  ELSE r
    [] c = "s" -> LET r == signalGet(g, "a") IN
                  IF r.ret = 0 THEN signalGet(r, "x") ELSE r

\* withObserver(node, fn) for a computed node
withObserverC(g, c) ==
  LET prev == g.currentObserver
      r == computedFn(Log([g EXCEPT !.currentObserver = c], <<"fn", c>>), c)
  IN [r EXCEPT !.currentObserver = prev]

\* the end of recompute: keep the result r.ret of fn and leave the guard
store(r, c) ==
  IF r.err # None THEN r
  ELSE Log([r EXCEPT !.value[c] = IF ~r.hasValue[c] \/ @ # r.ret THEN r.ret ELSE @,
                     !.hasValue[c] = TRUE,
                     !.stale[c] = FALSE,
                     !.computing[c] = FALSE],
           <<"recomputed", c>>)

\* the call has returned or thrown: its frame leaves the stack
pop(r, stack) == [r EXCEPT !.stack = stack]

\* recompute without the re-entrancy guard
recomputeUnguarded(g, c) ==
  IF Len(g.stack) >= MaxCallDepth THEN Throw(g, "RangeError")
  ELSE store(pop(withObserverC(
                   unlinkAllDeps([g EXCEPT !.computing[c] = TRUE,
                                           !.stack = Append(@, c)], c), c),
                 g.stack), c)

recompute(g, c) ==
  IF g.computing[c] THEN Throw(g, "CycleDetected")
  ELSE IF Len(g.stack) >= MaxCallDepth THEN Throw(g, "RangeError")
  ELSE store(pop(withObserverC(
                   unlinkAllDeps([g EXCEPT !.computing[c] = TRUE,
                                           !.stack = Append(@, c)], c), c),
                 g.stack), c)

\* return node.value
valueOf(r, c) == IF r.err # None THEN r ELSE Ret(r, r.value[c])

\* a get() that recomputes whatever the flags say
freshAlways(g, c) == recompute(g, c)

\* if (node.stale || !node.hasValue) recompute()
fresh(g, c) == IF g.stale[c] \/ ~g.hasValue[c] THEN recompute(g, c) ELSE g

computedGet(g, c) ==
  valueOf(fresh(track(IF c \in Range(g.stack) THEN Log(g, <<"reenter", c>>) ELSE g,
                     c), c), c)

\* for (const s of [...node.subs]) unlink(s, node), and the rest of dispose
detachSubs(g, c) ==
  [g EXCEPT !.deps = [n \in Nodes |-> IF n = c THEN {}
                                      ELSE IF n \in Range(g.subs[c]) THEN @[n] \ {c}
                                      ELSE @[n]],
            !.subs[c] = <<>>,
            !.stale[c] = TRUE, !.hasValue[c] = FALSE]

computedDispose(g, c) == detachSubs(unlinkAllDeps(g, c), c)

----------------------------------------------------------------------------
(* effect *)

\* console.log(v) in an effect
Saw(g, e, v) == Log(g, <<"saw", e, v>>)

\* console.log of the value that a get() returned, unless it threw
sawRet(r, e) == IF r.err # None THEN r ELSE Saw(r, e, r.ret)

RECURSIVE cancel(_, _)
RECURSIVE run(_, _)
RECURSIVE batch(_, _)

\* onCleanup(cb)
onCleanup(g, cb) ==
  IF g.activeEffect # Null
  THEN [g EXCEPT !.cleanups[g.activeEffect] = Append(@, cb)]
  ELSE g

\* the function of e5 after its batch: onCleanup(k2); it returns k3
copied(r) == IF r.err # None THEN r ELSE onCleanup(r, "k2")

\* the function of e5 from the value r.ret that a.get() returned:
\* onCleanup(k1), then batch(() => x.set(that value))
copying(r) ==
  copied(batch(onCleanup(r, "k1"), <<<<"set", "x", r.ret>>>>))

\* createResource: initialized = true, after a reload that returned
reloaded(r) == IF r.err # None THEN r ELSE [r EXCEPT !.initialized = TRUE]

\* createResource: meta.reload(), after a cancel that returned; the fetcher
\* returns a promise
reload(r) == IF r.err # None THEN r ELSE reloaded(run(r, None))

\* the function of the resource effect without its cancel
sourcedNoCancel(r) == reload([r EXCEPT !.currentSource = r.ret])

\* createResource: the function of its effect, from the value r.ret that
\* source() returned
sourced(r) ==
  IF r.initialized
  THEN reload(cancel([r EXCEPT !.currentSource = r.ret], "source-changed"))
  ELSE reload([r EXCEPT !.currentSource = r.ret])

\* the user functions of the effects; e3 throws when it reads x = 2, e4
\* logs what an observer of the async cell sees, res is the effect of
\* createResource with source x
effectFn(g, e) ==
  CASE e = "e1" -> sawRet(computedGet(g, "d"), e)
    [] e = "e2" -> LET r1 == signalGet(g, "a")
                       r2 == signalGet(r1, "x")
                   IN Saw(r2, e, 10 * r1.ret + r2.ret)
    [] e = "e3" -> LET r == signalGet(g, "x") IN
                   IF r.ret = 2 THEN Throw(r, "UserError")
                   ELSE Saw(r, e, r.ret)
    [] e = "e4" -> LET r1 == signalGet(g, "cell.status")
                       r2 == signalGet(r1, "cell.error")
                       r3 == signalGet(r2, "cell.value")
                   IN Saw(r3, e, <<r1.ret, r2.ret, r3.ret>>)
    [] e = "res" -> sourced(signalGet(g, "x"))
    [] e = "e5" -> copying(signalGet(g, "a"))
    [] e = "e6" -> sawRet(signalGet(g, "x"), e)
    [] e = "e7" -> LET r == signalGet(g, "a") IN
                   sawRet(IF r.ret = 0 THEN signalGet(r, "x") ELSE r, e)
    [] e = "e8" -> sawRet(computedGet(g, "s"), e)

withObserverE(g, e) ==
  LET prev == g.currentObserver
      r == effectFn([g EXCEPT !.currentObserver = e], e)
  IN [r EXCEPT !.currentObserver = prev]

\* marks in the trace that the function of e threw
threw(r, e) == IF r.err # None THEN Log(r, <<"threw", e>>) ELSE r

\* what the function of e returns: e5 returns the cleanup k3, the others
\* return undefined
returns(e) == IF e = "e5" THEN "k3" ELSE "undefined"

\* the cleanups that throw when they are called
Throwing == {"k3"}

\* cb() with no try / catch around it
cleanupCallUncaught(g, e, cb) ==
  IF cb \in Throwing
  THEN Throw(Log(g, <<"cleanup", e, cb>>), "CleanupError")
  ELSE Log(g, <<"cleanup", e, cb>>)

\* cb?.() inside try / catch: onError is not passed, the exception is dropped
cleanupCall(g, e, cb) ==
  IF cb \in Throwing
  THEN Log(Log(g, <<"cleanup", e, cb>>), <<"swallowed", e, cb>>)
  ELSE Log(g, <<"cleanup", e, cb>>)

RECURSIVE drainFrom(_, _, _)
\* for (let i = list.length - 1; i >= 0; i--) cb?.()
drainFrom(g, e, i) ==
  IF i < 1 THEN g
  ELSE drainFrom(cleanupCall(g, e, g.cleanups[e][i]), e, i - 1)

\* drainCleanups(this.cleanups)
drainCleanups(g, e) ==
  [drainFrom(g, e, Len(g.cleanups[e])) EXCEPT !.cleanups[e] = <<>>]

\* if (typeof ret === 'function') this.cleanups.push(ret), then
\* finally { activeEffect = null }
finished(r, e) ==
  IF r.err = None /\ returns(e) # "undefined"
  THEN [r EXCEPT !.cleanups[e] = Append(@, returns(e)), !.activeEffect = Null]
  ELSE [r EXCEPT !.activeEffect = Null]

\* a run that keeps the deps of the run before it
enteredKeepsDeps(g, e) ==
  Log([drainCleanups(g, e) EXCEPT !.activeEffect = e], <<"run", e>>)

\* activeEffect = this, after the cleanups are drained and the deps unlinked
entered(g, e) ==
  Log([unlinkAllDeps(drainCleanups(g, e), e) EXCEPT !.activeEffect = e],
      <<"run", e>>)

\* run without the test of disposed
effectRunAlways(g, e) ==
  threw(finished(withObserverE(entered(g, e), e), e), e)

effectRun(g, e) ==
  IF g.disposed[e] THEN g
  ELSE threw(finished(withObserverE(entered(g, e), e), e), e)

effectDispose(g, e) ==
  IF g.disposed[e] THEN g
  ELSE LET g1 == drainCleanups([g EXCEPT !.disposed[e] = TRUE], e)
           g2 == unlinkAllDeps(g1, e)
       IN [g2 EXCEPT !.deps[e] = {}, !.registry = @ \ {e}]

\* createEffect: new EffectInstance(fn), then inst.run()
createEffect(g, e) ==
  effectRun([g EXCEPT !.registry = @ \cup {e}], e)

----------------------------------------------------------------------------
(* scheduler: flushJobsTwoPhase *)

\* job.run(); a plain job logs that it ran
\* the job that the run of the plain job j hands to scheduleJob
Produces == [cs |-> "cj", cc |-> "cc", es |-> "cj", en |-> "ef", el |-> "el"]

\* run: () => { seq.push(j); S.scheduleJob(...) }
produced(g, j) ==
  IF j \in DOMAIN Produces THEN scheduleJob(g, Produces[j]) ELSE g

jobRun(g, j) ==
  IF j \in Jobs THEN produced(Log(g, <<"run", j>>), j) ELSE effectRun(g, j)

RECURSIVE runJobs(_, _, _)
\* for (const job of batch) job.run()
runJobs(g, jobs, i) ==
  IF i > Len(jobs) \/ g.err # None THEN g
  ELSE runJobs(jobRun(g, jobs[i]), jobs, i + 1)

\* the effect batch in the order of the queue
unsorted(jobs) == jobs

RECURSIVE sorted(_)
\* Array.from(effectQ).sort(by priority ?? 0); Array.prototype.sort is stable
sorted(jobs) ==
  IF jobs = <<>> THEN <<>>
  ELSE LET least == CHOOSE p \in {priority(jobs[i]) : i \in 1..Len(jobs)} :
                      \A i \in 1..Len(jobs) : p <= priority(jobs[i])
       IN SelectSeq(jobs, LAMBDA j : priority(j) = least)
          \o sorted(SelectSeq(jobs, LAMBDA j : priority(j) # least))

RECURSIVE phaseA(_)
\* the runtime state apart from what the run has logged
Same(g1, g) == [g1 EXCEPT !.trace = <<>>] = [g EXCEPT !.trace = <<>>]

\* the inner while loop after one batch: an iteration that ends in the state
\* in which it began is followed by the same iteration for ever
drained(g, g1) ==
  IF g1.err = None /\ Same(g1, g) THEN Throw(g1, "NeverReturns")
  ELSE phaseA(g1)

\* one batch of the inner loop, without the loop
phaseAOnce(g) ==
  IF g.err # None \/ Len(g.computeQ) = 0 THEN g
  ELSE runJobs([g EXCEPT !.computeQ = <<>>], g.computeQ, 1)

\* while (computeQ.size > 0) { batch = Array.from(computeQ); clear; run }
phaseA(g) ==
  IF g.err # None \/ Len(g.computeQ) = 0 THEN g
  ELSE drained(g, runJobs([g EXCEPT !.computeQ = <<>>], g.computeQ, 1))

\* if (effectQ.size > 0) { batch = sorted; clear; run }
phaseB(g) ==
  IF Len(g.effectQ) = 0 THEN g
  ELSE runJobs(Log([g EXCEPT !.effectQ = <<>>], <<"wave", g.computeQ>>),
               sorted(g.effectQ), 1)

RECURSIVE flushLoop(_, _)
\* the second half of one iteration of the while loop
thenEffects(gA, guard) ==
  IF gA.err # None THEN gA ELSE flushLoop(phaseB(gA), guard + 1)

flushLoop(g, guard) ==
  IF g.err # None THEN g
  ELSE IF Len(g.computeQ) = 0 /\ Len(g.effectQ) = 0 THEN g
  ELSE IF guard + 1 > GuardLimit THEN Throw(g, "InfiniteUpdateLoop")
  ELSE thenEffects(phaseA(g), guard)

flushJobsTwoPhase(g) ==
  flushLoop(Log([g EXCEPT !.scheduled = FALSE], <<"flush">>), 0)

flushSync(g) ==
  IF ~g.scheduled /\ Len(g.computeQ) = 0 /\ Len(g.effectQ) = 0 THEN g
  ELSE flushJobsTwoPhase(g)

----------------------------------------------------------------------------
(* scheduler: batch and atomic.  The callback handed to batch or atomic is  *)
(* a script: a sequence of <<"set", s, v>>, <<"throw">>,                    *)
(* <<"batch", body, caught>> and <<"atomic", body, caught>>, where caught   *)
(* says that the script wraps the nested call in try / catch.               *)

mergeChildIntoParent(child, parent) ==
  parent \o SelectSeq(child, LAMBDA e : ~LogHas(parent, e[1]))

RECURSIVE staleSubs(_, _, _)
\* for (const sub of node.subs) if (sub.kind === 'computed') markStale(sub)
staleSubs(g, ss, i) ==
  IF i > Len(ss) THEN g
  ELSE staleSubs(IF Kind(ss[i]) = "computed" THEN markStale(g, ss[i]) ELSE g,
                 ss, i + 1)

restoreSignalAndMarkStale(g, node, prev) ==
  IF Kind(node) = "signal"
  THEN staleSubs([g EXCEPT !.value[node] = prev], g.subs[node], 1)
  ELSE [g EXCEPT !.value[node] = prev]

RECURSIVE restoreEach(_, _, _)
\* for (const [node, prev] of log) restoreSignalAndMarkStale(node, prev)
restoreEach(g, log, i) ==
  IF i > Len(log) THEN g
  ELSE restoreEach(restoreSignalAndMarkStale(g, log[i][1], log[i][2]), log, i + 1)

\* r left a finally or catch block that was entered with the exception e
rethrow(r, e) == IF r.err # None THEN r ELSE [r EXCEPT !.err = e]

\* if (batchDepth === 0) flushJobsTwoPhase(), on the way out of a frame; an
\* exception of the flush replaces the one that is already on its way out
flushAtExit(g) ==
  IF g.batchDepth # 0 THEN g
  ELSE rethrow(flushJobsTwoPhase([g EXCEPT !.err = None]), g.err)

exitCommit(g) ==
  LET n   == Len(g.atomicLogs)
      log == g.atomicLogs[n]
      g1  == [g EXCEPT !.atomicLogs = SubSeq(@, 1, n - 1),
                       !.atomicDepth = @ - 1]
      g2  == IF g1.atomicDepth > 0
             THEN [g1 EXCEPT !.atomicLogs[n - 1] = mergeChildIntoParent(log, @)]
             ELSE g1
      g3  == [g2 EXCEPT !.batchDepth = @ - 1]
  IN flushAtExit(g3)

\* a rollback that restores the values and leaves the queues as they are
exitRollbackKeepsQueues(g) ==
  IF Len(g.atomicLogs) = 0
  THEN [g EXCEPT !.atomicDepth = @ - 1, !.err = "TypeError"]
  ELSE [restoreEach([g EXCEPT !.atomicLogs = SubSeq(@, 1, Len(@) - 1),
                              !.atomicDepth = @ - 1,
                              !.muted = @ + 1],
                    g.atomicLogs[Len(g.atomicLogs)], 1)
          EXCEPT !.muted = @ - 1, !.batchDepth = @ - 1]

\* const exitRollback = () => { ... }
exitRollback(g) ==
  IF Len(g.atomicLogs) = 0
  THEN \* atomicLogs.pop() is undefined: after atomicDepth-- and muted++ the
       \* for-of over it throws a TypeError, finally undoes muted++, and
       \* batchDepth-- is not reached
       [g EXCEPT !.atomicDepth = @ - 1, !.err = "TypeError"]
  ELSE [restoreEach([g EXCEPT !.atomicLogs = SubSeq(@, 1, Len(@) - 1),
                              !.atomicDepth = @ - 1,
                              !.muted = @ + 1],
                    g.atomicLogs[Len(g.atomicLogs)], 1)
          EXCEPT !.computeQ = <<>>, !.effectQ = <<>>, !.scheduled = FALSE,
                 !.muted = @ - 1, !.batchDepth = @ - 1]

RECURSIVE exec(_, _, _)
RECURSIVE atomic(_, _)

batch(g, fn) ==
  \* finally { batchDepth--; if (batchDepth === 0) flushJobsTwoPhase() }
  flushAtExit([Log(exec(Log([g EXCEPT !.batchDepth = @ + 1], <<"enter", "batch">>),
                        fn, 1),
                   <<"leave", "batch">>)
                 EXCEPT !.batchDepth = @ - 1])

\* catch (e) { exitRollback(); throw e }
catch(c) ==
  IF c.err = None THEN c ELSE rethrow(exitRollback([c EXCEPT !.err = None]), c.err)

\* try { out = fn(); exitCommit(); return out }
try(r) == catch(IF r.err = None THEN exitCommit(r) ELSE r)

atomic(g, fn) ==
  try(Log(exec(Log([g EXCEPT !.batchDepth = @ + 1,
                             !.atomicDepth = @ + 1,
                             !.atomicLogs = Append(@, <<>>)],
                   <<"enter", "atomic">>),
               fn, 1),
          <<"leave", "atomic">>))

\* atomic(fn), fn an async function whose body writes before its first
\* await: the frame is entered, the writes are made, and the promise that fn
\* returns is handed to Promise.resolve(out).then(...)
atomicPromise(g, fn) ==
  Log(exec(Log([g EXCEPT !.batchDepth = @ + 1,
                         !.atomicDepth = @ + 1,
                         !.atomicLogs = Append(@, <<>>)],
               <<"enter", "atomic">>),
           fn, 1),
      <<"await", "atomic">>)

\* (v) => { exitCommit(); return v }
onResolve(g) == exitCommit(g)

\* (err) => { exitRollback(); throw err }
onReject(g, err) == rethrow(exitRollback(g), err)

\* one call op of a script
call(g, op) ==
  CASE op[1] = "set"    -> signalSet(g, op[2], op[3])
    [] op[1] = "throw"  -> Throw(g, "UserError")
    [] op[1] = "batch"  -> batch(g, op[2])
    [] op[1] = "atomic" -> atomic(g, op[2])

\* the try / catch that the script has around a nested call
caught(r, op) ==
  IF op[1] \in {"batch", "atomic"} /\ r.err # None /\ op[3]
  THEN Log([r EXCEPT !.err = None], <<"caught", r.err>>)
  ELSE r

\* the script fn from its i-th call on
exec(g, fn, i) ==
  IF i > Len(fn) \/ g.err # None THEN g
  ELSE exec(caught(call(g, fn[i]), fn[i]), fn, i + 1)

----------------------------------------------------------------------------
(* fromPromise.  A run is named by its token; its AbortController is named  *)
(* by the same number.                                                      *)

isAbortError(err) == err = "AbortError"

\* the fields of FromPromiseOptions that the model carries, and the options
\* objects that pass some of them
Fields  == {"eager", "keepPreviousValueOnPending"}
Options == UNION {[S -> BOOLEAN] : S \in SUBSET Fields}

\* options.eager ?? true
eager(g) ==
  IF "eager" \in DOMAIN g.options THEN g.options["eager"] ELSE TRUE

\* a cell that clears its value unless keepPreviousValueOnPending is true
keepPrevOnlyIfPassed(g) ==
  IF "keepPreviousValueOnPending" \in DOMAIN g.options
  THEN g.options["keepPreviousValueOnPending"] ELSE FALSE

\* options.keepPreviousValueOnPending ?? true
keepPrev(g) ==
  IF "keepPreviousValueOnPending" \in DOMAIN g.options
  THEN g.options["keepPreviousValueOnPending"] ELSE TRUE

emit(g, type, token) == Log(g, <<"event", type, token>>)

\* if (currentController === controller) currentController = null
release(g, controller) ==
  IF g.currentController = controller
  THEN [g EXCEPT !.currentController = 0] ELSE g

\* emit(...), the options callback, and the release of the controller, after
\* the batch that left g
notify(g, type, callback, myToken, payload) ==
  IF g.err # None THEN g
  ELSE release(Log(emit(g, type, myToken), <<callback, myToken, payload>>), myToken)

\* makePromise is called; a resource hands currentSource to its fetcher
called(g, myToken) == Log(g, <<"makePromise", myToken, g.currentSource>>)

\* run() from emit({ type: "start" }) on
started(g, myToken, thrown) ==
  IF g.err # None THEN g
  ELSE IF thrown = None
  THEN [called(emit(g, "start", myToken), myToken)
          EXCEPT !.promise[myToken] = "pending"]
  ELSE IF myToken # g.currentToken THEN called(emit(g, "start", myToken), myToken)
  ELSE notify(batch(called(emit(g, "start", myToken), myToken),
                    <<<<"set", "cell.error", thrown>>,
                      <<"set", "cell.status", "error">>>>),
              "error", "onError", myToken, thrown)

\* currentController?.abort(reason)
abort(g, reason) ==
  IF g.currentController = 0 THEN g
  ELSE Log([g EXCEPT !.aborted = @ \cup {g.currentController}],
           <<"abort", g.currentController, reason>>)

\* run() that leaves the previous controller alone
runNoAbort(g, thrown) ==
  started(batch([g EXCEPT !.currentToken = @ + 1,
                          !.currentController = g.currentToken + 1],
                <<<<"set", "cell.status", "pending">>,
                  <<"set", "cell.error", "undefined">>>>
                \o IF keepPrev(g) THEN <<>>
                   ELSE <<<<"set", "cell.value", Undef>>>>),
          g.currentToken + 1, thrown)

\* run(); thrown is what makePromise throws, None when it returns a promise
run(g, thrown) ==
  started(batch([abort(g, "superseded")
                   EXCEPT !.currentToken = @ + 1,
                          !.currentController = g.currentToken + 1],
                <<<<"set", "cell.status", "pending">>,
                  <<"set", "cell.error", "undefined">>>>
                \o IF keepPrev(g) THEN <<>>
                   ELSE <<<<"set", "cell.value", Undef>>>>),
          g.currentToken + 1, thrown)

\* the fulfilment handler without its two guards
thenFulfilledUnguarded(g, myToken, result) ==
  notify(batch([g EXCEPT !.promise[myToken] = "fulfilled"],
               <<<<"set", "cell.value", result>>,
                 <<"set", "cell.status", "success">>>>),
         "success", "onSuccess", myToken, result)

\* the fulfilment handler writing value and status in two batches
thenFulfilledTwoBatches(g, myToken, result) ==
  IF myToken # g.currentToken THEN [g EXCEPT !.promise[myToken] = "fulfilled"]
  ELSE IF myToken \in g.aborted THEN [g EXCEPT !.promise[myToken] = "fulfilled"]
  ELSE notify(batch(batch([g EXCEPT !.promise[myToken] = "fulfilled"],
                          <<<<"set", "cell.value", result>>>>),
                    <<<<"set", "cell.status", "success">>>>),
              "success", "onSuccess", myToken, result)

\* the fulfilment handler that run myToken gave to p.then
thenFulfilled(g, myToken, result) ==
  IF myToken # g.currentToken THEN [g EXCEPT !.promise[myToken] = "fulfilled"]
  ELSE IF myToken \in g.aborted THEN [g EXCEPT !.promise[myToken] = "fulfilled"]
  ELSE notify(batch([g EXCEPT !.promise[myToken] = "fulfilled"],
                    <<<<"set", "cell.value", result>>,
                      <<"set", "cell.status", "success">>>>),
              "success", "onSuccess", myToken, result)

\* the rejection handler without the test for an abort
thenRejectedAnyReason(g, myToken, err) ==
  IF myToken # g.currentToken THEN [g EXCEPT !.promise[myToken] = "rejected"]
  ELSE notify(batch([g EXCEPT !.promise[myToken] = "rejected"],
                    <<<<"set", "cell.error", err>>,
                      <<"set", "cell.status", "error">>>>),
              "error", "onError", myToken, err)

\* the rejection handler that run myToken gave to p.then
thenRejected(g, myToken, err) ==
  IF myToken # g.currentToken THEN [g EXCEPT !.promise[myToken] = "rejected"]
  ELSE IF myToken \in g.aborted \/ isAbortError(err)
  THEN release([g EXCEPT !.promise[myToken] = "rejected"], myToken)
  ELSE notify(batch([g EXCEPT !.promise[myToken] = "rejected"],
                    <<<<"set", "cell.error", err>>,
                      <<"set", "cell.status", "error">>>>),
              "error", "onError", myToken, err)

\* cancel() from emit({ type: "cancel" }) on
cancelled(g, controller, reason) ==
  IF g.err # None THEN g
  ELSE release(Log(emit(g, "cancel", g.currentToken), <<"onCancel", reason>>),
               controller)

\* cancel that does not abort the controller
cancelNoAbort(g, reason) ==
  IF g.currentController = 0 THEN g
  ELSE IF g.currentController \in g.aborted THEN g
  ELSE cancelled(batch(g, <<<<"set", "cell.status", "cancelled">>>>),
                 g.currentController, reason)

\* cancel without the tests of the controller
cancelUnguarded(g, reason) ==
  cancelled(batch(abort(g, reason),
                  <<<<"set", "cell.status", "cancelled">>>>),
            g.currentController, reason)

\* cancel(reason)
cancel(g, reason) ==
  IF g.currentController = 0 THEN g
  ELSE IF g.currentController \in g.aborted THEN g
  ELSE cancelled(batch(abort(g, reason),
                       <<<<"set", "cell.status", "cancelled">>>>),
                 g.currentController, reason)

\* fromPromise(makePromise, opts)
fromPromise(g, opts) ==
  LET g1 == [g EXCEPT !.options = opts]
  IN IF eager(g1) THEN run(g1, None) ELSE g1

----------------------------------------------------------------------------
(* The state after signal(0) for a and x and computed(fn) for b, c, d, p, q, *)
(* before any effect is created.                                            *)

Blank ==
  [value |-> [n \in Signals \cup Cell \cup Computeds |->
                CASE n \in Signals -> 0
                  [] n = "cell.status" -> "idle"
                  [] n = "cell.error" -> "undefined"
                  [] OTHER -> Undef],
   stale |-> [c \in Computeds |-> TRUE],
   hasValue |-> [c \in Computeds |-> FALSE],
   computing |-> [c \in Computeds |-> FALSE],
   deps |-> [n \in Nodes |-> {}],
   subs |-> [n \in Nodes |-> <<>>],
   disposed |-> [e \in Effects |-> FALSE],
   registry |-> {},
   currentObserver |-> Null,
   computeQ |-> <<>>, effectQ |-> <<>>, scheduled |-> FALSE,
   batchDepth |-> 0, atomicDepth |-> 0, atomicLogs |-> <<>>, muted |-> 0,
   microtasks |-> 0, handles |-> {},
   cleanups |-> [e \in Effects |-> <<>>], activeEffect |-> Null,
   currentToken |-> 0, currentController |-> 0, aborted |-> {},
   promise |-> [t \in Runs |-> "none"],
   options |-> [eager |-> FALSE, keepPreviousValueOnPending |-> TRUE],
   currentSource |-> Undef, initialized |-> FALSE,
   trace |-> <<>>, err |-> None, ret |-> Undef, stack |-> <<>>]

\* the runtime state as a record, at the start of a public call
Start ==
  [value |-> value, stale |-> stale, hasValue |-> hasValue,
   computing |-> computing, deps |-> deps, subs |-> subs,
   disposed |-> disposed, registry |-> registry,
   currentObserver |-> currentObserver,
   computeQ |-> computeQ, effectQ |-> effectQ, scheduled |-> scheduled,
   batchDepth |-> batchDepth, atomicDepth |-> atomicDepth,
   atomicLogs |-> atomicLogs, muted |-> muted,
   microtasks |-> microtasks, handles |-> handles,
   cleanups |-> cleanups, activeEffect |-> activeEffect,
   currentToken |-> currentToken, currentController |-> currentController,
   aborted |-> aborted, promise |-> promise, options |-> options,
   currentSource |-> currentSource, initialized |-> initialized,
   trace |-> <<>>, err |-> None, ret |-> Undef, stack |-> <<>>]

\* the runtime state after a public call that left the record g
Becomes(g) ==
  /\ g.microtasks <= MaxMicrotasks
  /\ g.currentToken <= MaxRuns
  /\ g.atomicDepth >= 0 - MaxSkew
  /\ value' = g.value /\ stale' = g.stale /\ hasValue' = g.hasValue
  /\ computing' = g.computing /\ deps' = g.deps /\ subs' = g.subs
  /\ disposed' = g.disposed /\ registry' = g.registry
  /\ currentObserver' = g.currentObserver
  /\ computeQ' = g.computeQ /\ effectQ' = g.effectQ
  /\ scheduled' = g.scheduled /\ batchDepth' = g.batchDepth
  /\ atomicDepth' = g.atomicDepth /\ atomicLogs' = g.atomicLogs
  /\ muted' = g.muted /\ microtasks' = g.microtasks
  /\ handles' = g.handles
  /\ cleanups' = g.cleanups /\ activeEffect' = g.activeEffect
  /\ currentToken' = g.currentToken
  /\ currentController' = g.currentController
  /\ aborted' = g.aborted /\ promise' = g.promise /\ options' = g.options
  /\ currentSource' = g.currentSource /\ initialized' = g.initialized

\* the state in which construction left the record g
InitFrom(g) ==
  /\ value = g.value /\ stale = g.stale
  /\ hasValue = g.hasValue /\ computing = g.computing
  /\ deps = g.deps /\ subs = g.subs
  /\ disposed = g.disposed /\ registry = g.registry
  /\ currentObserver = Null
  /\ computeQ = <<>> /\ effectQ = <<>> /\ scheduled = FALSE
  /\ batchDepth = 0 /\ atomicDepth = 0 /\ atomicLogs = <<>> /\ muted = 0
  /\ microtasks = 0 /\ handles = {}
  /\ cleanups = g.cleanups /\ activeEffect = g.activeEffect
  /\ currentToken = g.currentToken
  /\ currentController = g.currentController
  /\ aborted = g.aborted /\ promise = g.promise /\ options = g.options
  /\ currentSource = g.currentSource /\ initialized = g.initialized

----------------------------------------------------------------------------
(* The callbacks handed to batch and atomic *)

Writes(S) == {<<"set", s, v>> : s \in S, v \in Vals}

\* one write or two
Flat(S) == {<<w>> : w \in Writes(S)} \cup
           {<<w1, w2>> : w1 \in Writes(S), w2 \in Writes(S)}

\* a nested frame that writes once and returns or throws; the script catches
\* what it throws
Frame(S) == {<<k, body, TRUE>> :
               k \in {"batch", "atomic"},
               body \in {<<w>> : w \in Writes(S)} \cup
                        {<<w, <<"throw">>>> : w \in Writes(S)}}

\* a write, then a nested frame
Nested(S) == {<<w, f>> : w \in Writes(S), f \in Frame(S)}

\* the callbacks without a nested frame: they write, and return or throw
Plain(S) == Flat(S) \cup {Append(fn, <<"throw">>) : fn \in Flat(S)}

\* the callbacks that write the signals S
Callbacks(S) == Flat(S) \cup Nested(S) \cup
                {Append(fn, <<"throw">>) : fn \in Flat(S) \cup Nested(S)}

----------------------------------------------------------------------------
(* The public calls, made by top-level code that catches what they throw *)

\* s.set(v)
Set(s, v) == Becomes(signalSet(Start, s, v))

\* c.get() outside any observer
Get(c) == Becomes(computedGet(Start, c))

\* batch(fn)
Batch(fn) == Becomes(batch(Start, fn))

\* atomic(fn) or transaction(fn), fn returning no promise
Atomic(fn) == Becomes(atomic(Start, fn))

\* the microtask armed by scheduleJob comes due
MicrotaskFlush ==
  /\ microtasks > 0
  /\ Becomes(flushJobsTwoPhase([Start EXCEPT !.microtasks = @ - 1]))

FlushSync == Becomes(flushSync(Start))

\* the function returned by createEffect
DisposeEffect(e) == Becomes(effectDispose(Start, e))

DisposeComputed(c) == Becomes(computedDispose(Start, c))

\* s.subscribe(observer), keeping the detach function
Subscribe(n, s) ==
  LET r == link(Start, n, s)
  IN Becomes(IF r.err # None THEN r ELSE [r EXCEPT !.handles = @ \cup {<<n, s>>}])

\* a detach function returned by subscribe
Detach(n, s) ==
  /\ <<n, s>> \in handles
  /\ Becomes(unlink(Start, n, s))

----------------------------------------------------------------------------
(* The diamond: a, b = a + 1, c = a * 10, d = b + c, and e1 logging d. *)

InitDiamond == InitFrom(createEffect(Blank, "e1"))

NextDiamond ==
  \/ \E v \in Vals : Set("a", v)
  \/ \E c \in {"b", "c", "d"} : Get(c)
  \/ \E fn \in Callbacks({"a"}) : Batch(fn)
  \/ \E fn \in Callbacks({"a"}) : Atomic(fn)
  \/ MicrotaskFlush
  \/ FlushSync
  \/ DisposeEffect("e1")
  \/ DisposeComputed("d")

SpecDiamond == InitDiamond /\ [][NextDiamond]_vars

(* Two effects on two signals: e2 logs a and x, e3 logs x and throws at 2. *)

InitEffects == InitFrom(createEffect(createEffect(Blank, "e2"), "e3"))

NextEffects ==
  \/ \E s \in Signals, v \in Vals : Set(s, v)
  \/ \E fn \in Plain(Signals) : Batch(fn)
  \/ \E fn \in Plain(Signals) : Atomic(fn)
  \/ MicrotaskFlush
  \/ FlushSync
  \/ \E e \in {"e2", "e3"} : DisposeEffect(e)

SpecEffects == InitEffects /\ [][NextEffects]_vars

(* The computeds p and q on x, read by top-level code; the effect e3; and   *)
(* external code that subscribes and detaches observers.                   *)

InitGraph == InitFrom(createEffect(Blank, "e3"))

\* the pairs <<observer, signal>> that external code subscribes
Subscribers == {<<"e3", "a">>, <<"q", "a">>, <<"x", "a">>}

NextGraph ==
  \/ \E v \in Vals : Set("x", v)
  \/ \E v \in {0, 1} : Set("a", v)   \* no node reads the value of a
  \/ \E c \in {"p", "q"} : Get(c)
  \/ MicrotaskFlush
  \/ FlushSync
  \/ DisposeEffect("e3")
  \/ \E c \in {"p", "q"} : DisposeComputed(c)
  \/ \E p \in Subscribers : Subscribe(p[1], p[2])
  \/ \E p \in Subscribers : Detach(p[1], p[2])

SpecGraph == InitGraph /\ [][NextGraph]_vars

(* One async cell: reloads, cancels, and promises that settle in any order; *)
(* the effect e4 observes the cell.                                         *)

InitAsync ==
  \E opts \in Options :
    InitFrom(createEffect(fromPromise(Blank, opts), "e4"))

\* cell.reload(); makePromise returns a promise or throws
Reload(thrown) ==
  /\ currentToken < MaxRuns
  /\ Becomes(run(Start, thrown))

\* cell.cancel()
Cancel == Becomes(cancel(Start, "user"))

\* the promise of run t fulfils with v and its handler runs
Resolve(t, v) ==
  /\ promise[t] = "pending"
  /\ Becomes(thenFulfilled(Start, t, v))

\* the promise of run t rejects with err and its handler runs
Reject(t, err) ==
  /\ promise[t] = "pending"
  /\ Becomes(thenRejected(Start, t, err))

NextAsync ==
  \/ \E thrown \in Errors \cup {None} : Reload(thrown)
  \/ Cancel
  \/ \E t \in Runs, v \in Vals : Resolve(t, v)
  \/ \E t \in Runs, err \in Errors : Reject(t, err)

SpecAsync == InitAsync /\ [][NextAsync]_vars

(* One resource: createResource with source x; the effect e4 observes it. *)

\* createResource(source, fetcher, opts)
\* the options of the caller handed on as they are
asPassed(opts) == opts

\* { ...(options ?? {}), eager: false }
eagerFalse(opts) ==
  [f \in DOMAIN opts \cup {"eager"} |-> IF f = "eager" THEN FALSE ELSE opts[f]]

createResource(g, opts) ==
  createEffect(fromPromise(g, eagerFalse(opts)), "res")

\* the options handed to createResource: any eager or none, and
\* keepPreviousValueOnPending false or left to its default
ResourceOptions ==
  {opts \in Options : "keepPreviousValueOnPending" \in DOMAIN opts =>
                        ~opts["keepPreviousValueOnPending"]}

InitResource ==
  \E opts \in ResourceOptions :
    InitFrom(createEffect(createResource(Blank, opts), "e4"))

\* the program writes the sources 0, 1 and 2; its fetcher yields 0 or 2
NextResource ==
  \/ \E v \in {0, 1, 2} : Set("x", v)
  \/ MicrotaskFlush
  \/ FlushSync
  \/ Reload(None)
  \/ Cancel
  \/ \E t \in Runs, v \in {0, 2} : Resolve(t, v)
  \/ \E t \in Runs, err \in Errors : Reject(t, err)

SpecResource == InitResource /\ [][NextResource]_vars

(* The effect e5 with its cleanups and its nested batch, and e6 behind x. *)

InitCleanup == InitFrom(createEffect(createEffect(Blank, "e6"), "e5"))

NextCleanup ==
  \/ \E s \in Signals, v \in Vals : Set(s, v)
  \/ MicrotaskFlush
  \/ FlushSync
  \/ \E e \in {"e5", "e6"} : DisposeEffect(e)

SpecCleanup == InitCleanup /\ [][NextCleanup]_vars

(* Plain jobs with priorities beside the effect e2. *)

InitJobs == InitFrom(createEffect(Blank, "e2"))

\* scheduleJob(j) on a plain job
Schedule(j) == Becomes(scheduleJob(Start, j))

NextJobs ==
  \/ \E j \in Ranked : Schedule(j)
  \/ \E v \in Vals : Set("a", v)
  \/ MicrotaskFlush
  \/ FlushSync

SpecJobs == InitJobs /\ [][NextJobs]_vars

\* e7 reads a and, while a is 0, x; the computed s does the same and e8
\* reads s
InitBranches == InitFrom(createEffect(createEffect(Blank, "e7"), "e8"))

NextBranches ==
  \/ \E n \in Signals, v \in Vals : Set(n, v)
  \/ Get("s")
  \/ \E fn \in Flat(Signals) : Batch(fn)
  \/ MicrotaskFlush
  \/ FlushSync

SpecBranches == InitBranches /\ [][NextBranches]_vars

\* the plain jobs of both kinds that schedule jobs while they run
InitWaves == InitFrom(Blank)

\* a microtask flush that returns
Turn ==
  /\ microtasks > 0
  /\ flushJobsTwoPhase([Start EXCEPT !.microtasks = @ - 1]).err # "NeverReturns"
  /\ MicrotaskFlush

NextWaves ==
  \/ \E j \in ComputedJobs \cup EffectJobs : Schedule(j)
  \/ Turn
  \/ flushSync(Start).err # "NeverReturns" /\ FlushSync

SpecWaves == InitWaves /\ [][NextWaves]_vars

\* an effect on both signals, and atomics whose callbacks return promises
InitTransactions == InitFrom(createEffect(Blank, "e2"))

\* the async bodies: one write before the first await
Bodies == {<<w>> : w \in Writes(Signals)}

\* atomic(async () => { s.set(v); await ... })
OpenAtomic(fn) ==
  /\ Len(atomicLogs) < MaxOpen
  /\ Becomes(atomicPromise(Start, fn))

\* the promise of an open atomic resolves
SettleResolve ==
  /\ Len(atomicLogs) > 0
  /\ Becomes(onResolve(Start))

\* the promise of an open atomic rejects
SettleReject ==
  /\ Len(atomicLogs) > 0
  /\ Becomes(onReject(Start, "Boom"))

NextTransactions ==
  \/ \E fn \in Bodies : OpenAtomic(fn)
  \/ SettleResolve
  \/ SettleReject
  \/ \E s \in Signals, v \in Vals : Set(s, v)
  \/ MicrotaskFlush
  \/ FlushSync

SpecTransactions == InitTransactions /\ [][NextTransactions]_vars

----------------------------------------------------------------------------
(* Properties.  A property about what a call does is stated for the call    *)
(* applied to the current state, for every reachable state.                 *)

Count(tr, ev) == Cardinality({i \in 1..Len(tr) : tr[i] = ev})

\* the positions of tr that hold an event of kind k about node n
At(tr, k, n) == {i \in 1..Len(tr) : tr[i][1] = k /\ tr[i][2] = n}

RECURSIVE Closure(_)
\* the nodes reached from the nodes S along deps
Closure(S) ==
  LET T == S \cup UNION {deps[n] : n \in S}
  IN IF T = S THEN S ELSE Closure(T)

\* e depends on s, directly or through a chain of computeds
DependsOn(e, s) == s \in Closure({e})

\* what the function of effect e logs when the signals hold val
Logged(e, val) ==
  CASE e = "e1" -> 11 * val["a"] + 1
    [] e = "e2" -> 10 * val["a"] + val["x"]
    [] e = "e3" -> val["x"]

\* the edges of the diamond are in place and e1 is alive
DiamondLinked ==
  /\ "a" \in deps["b"] /\ "a" \in deps["c"]
  /\ {"b", "c"} \subseteq deps["d"]
  /\ "d" \in deps["e1"]
  /\ ~disposed["e1"]

\* C1: one write to the root a of the diamond makes e1 run exactly once at
\* the next flush, and the d it logs is computed from the new a only
\* (b + c = 11 * a + 1, never old b with new c or the reverse).
DiamondRunsOnceOnNewValue ==
  \A v \in Vals :
    (DiamondLinked /\ v # value["a"]) =>
      LET w == signalSet(Start, "a", v)
          r == flushJobsTwoPhase(w)
      IN /\ Count(r.trace, <<"run", "e1">>) = 1
         /\ \A i \in At(r.trace, "saw", "e1") : r.trace[i][3] = 11 * v + 1

\* C2: in one flush, every computed that an effect depends on and that was
\* stale when the flush began has been recomputed before that effect's
\* function starts.
StaleComputedsBeforeEffect ==
  LET r == flushJobsTwoPhase(Start)
  IN \A e \in Effects : \A i \in At(r.trace, "run", e) :
       \A c \in deps[e] \cap Computeds :
         stale[c] => \E j \in 1..(i - 1) : r.trace[j] = <<"recomputed", c>>

\* the position at which the callback of the outermost frame ended
Left(tr) == CHOOSE i \in 1..Len(tr) :
              /\ tr[i][1] = "leave"
              /\ \A j \in (i + 1)..Len(tr) : tr[j][1] # "leave"

\* C3: no effect runs while the callback of batch(fn) executes; when the
\* outermost batch returns, every effect that depends on a signal the batch
\* changed has run exactly once and logged the final values.
BatchDefersAndRunsOnce ==
  \A fn \in Callbacks({"a"}) :
    LET r  == batch(Start, fn)
        tr == r.trace
    IN /\ \A i \in 1..Left(tr) : tr[i][1] # "run"
       /\ r.err = None =>
            \A e \in Effects :
              (~disposed[e] /\ \E s \in {"a"} : r.value[s] # value[s] /\ DependsOn(e, s))
              => /\ Count(tr, <<"run", e>>) = 1
                 /\ \A i \in At(tr, "saw", e) : tr[i][3] = Logged(e, r.value)

\* C4: when atomic(fn) exits by throwing, every signal written inside holds
\* the value it had before the call.
AtomicThrowRestores ==
  \A fn \in Callbacks({"a", "x"}) :
    LET r == atomic(Start, fn)
    IN r.err # None => \A s \in {"a", "x"} : r.value[s] = value[s]

\* C5: outside atomic, a set that changes a signal enqueues every live effect
\* that depends on it, directly or through computeds, and the effect runs at
\* the next flush.
WriteEnqueuesDependents ==
  \A v \in Vals :
    (v # value["a"] /\ atomicDepth = 0) =>
      LET w == signalSet(Start, "a", v)
          r == flushJobsTwoPhase(w)
      IN \A e \in Effects :
           (~disposed[e] /\ DependsOn(e, "a"))
           => e \in Range(w.effectQ) /\ Count(r.trace, <<"run", e>>) >= 1

\* C6: B is in A.deps exactly when A is in B.subs.
EdgesAreMutual ==
  \A A \in Nodes, B \in Nodes : B \in deps[A] <=> A \in Range(subs[B])

\* C6 witness: edges were made by a recompute and by subscribe, and an
\* effect was disposed.
EdgesExercised ==
  /\ "q" \in deps["p"]
  /\ <<"q", "a">> \in handles /\ "a" \in deps["q"]
  /\ disposed["e3"] /\ deps["e3"] = {}

\* C7: when an effect throws during a flush, the exception leaves the flush
\* and every other effect that was queued for the flush still runs.
ThrowDoesNotStopTheWave ==
  LET r == flushJobsTwoPhase(Start)
  IN (\E i \in 1..Len(r.trace) : r.trace[i][1] = "threw") =>
       /\ r.err # None
       /\ \A e \in Range(effectQ) : ~disposed[e] => Count(r.trace, <<"run", e>>) >= 1

\* C8: a get() that fails with CycleDetected leaves the computed with
\* computing = false and stale = true.
CycleLeavesGuardClear ==
  \A c \in {"p", "q"} :
    LET r == computedGet(Start, c)
    IN r.err = "CycleDetected" => ~r.computing[c] /\ r.stale[c]

\* C9: a get() in which a computed is read while it is being computed, by
\* itself or through other computeds, fails with CycleDetected; no get()
\* recurses until the stack overflows.
SelfReadIsCycleDetected ==
  \A c \in {"p", "q"} :
    LET r == computedGet(Start, c)
    IN /\ r.err # "RangeError"
       /\ (\E i \in 1..Len(r.trace) : r.trace[i][1] = "reenter")
            => r.err = "CycleDetected"

\* C9 witness: q reads itself through p, and get() fails with CycleDetected.
SelfReadSeen ==
  /\ value["x"] = 1 /\ ~computing["p"] /\ ~computing["q"]
  /\ LET r == computedGet(Start, "p")
     IN r.err = "CycleDetected" /\ <<"reenter", "p">> \in Range(r.trace)

\* the three signals of the cell hold in r what they hold now
CellUntouched(r) == \A n \in Cell : r.value[n] = value[n]

\* the call that left r invoked neither onSuccess nor onError
NoCallback(r) ==
  \A i \in 1..Len(r.trace) : r.trace[i][1] \notin {"onSuccess", "onError"}

\* C10: when the promise of a run that a later reload has superseded settles,
\* by fulfilling or by rejecting, and before or after the promise of the
\* newer run settles, value, status and error keep what they hold and
\* neither onSuccess nor onError is invoked.
SupersededRunIsInert ==
  \A t \in Runs :
    (promise[t] = "pending" /\ t < currentToken) =>
      /\ \A v \in Vals :
           LET r == thenFulfilled(Start, t, v)
           IN CellUntouched(r) /\ NoCallback(r)
      /\ \A err \in Errors :
           LET r == thenRejected(Start, t, err)
           IN CellUntouched(r) /\ NoCallback(r)

\* C10 witness: the second run has settled with success while the promise
\* of the first, superseded, run is still to settle.
SupersededRunSettlesLast ==
  /\ currentToken > 1 /\ promise[1] = "pending"
  /\ promise[currentToken] = "fulfilled" /\ value["cell.status"] = "success"
  /\ thenFulfilled(Start, 1, 0).promise[1] = "fulfilled"

\* what the observer e4 logged during a call, in order: each entry is
\* <<status, error, value>>
Observed(tr) ==
  LET saw == SelectSeq(tr, LAMBDA ev : ev[1] = "saw" /\ ev[2] = "e4")
  IN [i \in 1..Len(saw) |-> saw[i][3]]

AbortRejectionIsNotAnError ==
  \A t \in Runs, err \in Errors :
    (promise[t] = "pending" /\ (isAbortError(err) \/ t \in aborted)) =>
      LET r == thenRejected(Start, t, err)
      IN /\ r.value["cell.status"] = value["cell.status"]
         /\ r.value["cell.error"] = value["cell.error"]
         /\ \A i \in 1..Len(r.trace) : r.trace[i][1] # "onError"

\* C12 witness: the promise of the only run rejected after cancel, and the
\* cell is cancelled with no error.
RejectedAfterCancel ==
  /\ currentToken = 1 /\ 1 \in aborted /\ promise[1] = "rejected"
  /\ value["cell.status"] = "cancelled" /\ value["cell.error"] = "undefined"

\* the statuses that the observer e4 logged during a call, in order
Statuses(tr) == [i \in 1..Len(Observed(tr)) |-> Observed(tr)[i][1]]

Where(tr, ev) == {i \in 1..Len(tr) : tr[i] = ev}

\* the source changes to v and the microtask that the write armed comes due
SourceChanged(v) == flushJobsTwoPhase(signalSet(Start, "x", v))

\* C14: when the source of a resource changes while a fetch is in flight, the
\* controller of that fetch is aborted with reason source-changed before the
\* fetcher is called with the new source, and when the old fetch settles
\* after the new one the cell keeps the value that the new fetch produced.
SourceChangeSwitchesToLatest ==
  \A t \in Runs, v \in Vals :
    (/\ initialized /\ ~disposed["res"] /\ t < MaxRuns
     /\ currentToken = t /\ currentController = t /\ t \notin aborted
     /\ promise[t] = "pending" /\ v # value["x"])
    => LET f == SourceChanged(v)
       IN /\ t \in f.aborted
          /\ Where(f.trace, <<"abort", t, "source-changed">>) # {}
          /\ Where(f.trace, <<"makePromise", t + 1, v>>) # {}
          /\ \A i \in 1..Len(f.trace) :
               f.trace[i][1] = "makePromise" =>
                 /\ f.trace[i] = <<"makePromise", t + 1, v>>
                 /\ \E j \in 1..(i - 1) :
                      f.trace[j] = <<"abort", t, "source-changed">>
          /\ \A new \in Vals :
               LET n == thenFulfilled(f, t + 1, new)
               IN /\ n.value["cell.value"] = new
                  /\ n.value["cell.status"] = "success"
                  /\ \A old \in Vals :
                       \A s \in Cell :
                         thenFulfilled(n, t, old).value[s] = n.value[s]
                  /\ \A err \in Errors :
                       \A s \in Cell :
                         thenRejected(n, t, err).value[s] = n.value[s]

\* C14 witness: the source changed to 1 while the first fetch was in flight,
\* both fetches fulfilled, and the cell holds the 2 of the second fetch.
LateSettlementAfterSourceChange ==
  /\ initialized /\ currentSource = 1 /\ currentToken = 2
  /\ 1 \in aborted /\ promise[1] = "fulfilled" /\ promise[2] = "fulfilled"
  /\ value["cell.value"] = 2 /\ value["cell.status"] = "success"

\* the callbacks of an outer atomic that writes or not, runs an inner atomic
\* that writes and returns, writes or not, and throws
InnerCommits(S) ==
  {pre \o <<<<"atomic", inner, FALSE>>>> \o post \o <<<<"throw">>>> :
     pre \in {<<>>} \cup {<<w>> : w \in Writes(S)},
     inner \in {<<w>> : w \in Writes(S)},
     post \in {<<>>} \cup {<<w>> : w \in Writes(S)}}

\* C15: when an inner atomic commits and the enclosing atomic then throws,
\* every signal holds again the value it had before the outer atomic began,
\* whichever of the two frames wrote it.
InnerCommitOuterRollbackRestores ==
  \A fn \in InnerCommits(Signals) :
    LET r == atomic(Start, fn)
    IN \A s \in Signals : r.value[s] = value[s]

\* the runtime state inside the callback of an atomic that was just entered
Opened ==
  [Start EXCEPT !.batchDepth = @ + 1, !.atomicDepth = @ + 1,
                !.atomicLogs = Append(@, <<>>)]

\* C16: a set with a value equal to the current one changes nothing, outside
\* an atomic and inside one, before and after a first write: value, stale
\* flags, queues, the armed flush and the write log are what they were.
EqualSetChangesNothing ==
  \A s \in Signals :
    /\ signalSet(Start, s, value[s]) = Start
    /\ signalSet(Opened, s, value[s]) = Opened
    /\ \A v \in Vals :
         LET w == signalSet(Opened, s, v)
         IN signalSet(w, s, v) = w

\* C16 witness: a holds 1, e2 is subscribed to it and alive, and no effect
\* is queued and no flush armed, so that a.set(1) has something to disturb.
EqualSetHasSubscribers ==
  /\ value["a"] = 1 /\ "e2" \in Range(subs["a"]) /\ ~disposed["e2"]
  /\ effectQ = <<>> /\ ~scheduled /\ microtasks = 0 /\ atomicDepth = 0

\* C17: once an effect is disposed its function does not start again: not in
\* the flush that finds it in the effect queue, and not in the flush after a
\* later write to any signal.
DisposedEffectNeverRuns ==
  \A e \in {"e2", "e3"} :
    LET f == flushJobsTwoPhase(effectDispose(Start, e))
    IN /\ At(f.trace, "run", e) = {}
       /\ \A s \in Signals, v \in Vals :
            At(flushJobsTwoPhase(signalSet(f, s, v)).trace, "run", e) = {}

\* C17 witness: e2 was disposed while it stood in the effect queue.
DisposedWhileQueued ==
  /\ disposed["e2"] /\ "e2" \in Range(effectQ) /\ microtasks > 0

\* the jobs and effects that tr shows running, in order
Ran(tr) ==
  LET runs == SelectSeq(tr, LAMBDA ev : ev[1] = "run")
  IN [i \in 1..Len(runs) |-> runs[i][2]]

\* the place of j in the effect queue
Place(j) == CHOOSE i \in 1..Len(effectQ) : effectQ[i] = j

\* C18: a flush runs every queued job once, a job of lower priority before
\* one of higher priority (no priority counting as 0), and jobs of equal
\* priority in the order in which they entered the queue.
WaveRunsByPriorityThenQueueOrder ==
  LET ran == Ran(flushJobsTwoPhase(Start).trace)
  IN /\ Len(ran) = Len(effectQ)
     /\ Range(ran) = Range(effectQ)
     /\ \A i \in 1..Len(ran), k \in 1..Len(ran) :
          i < k =>
            \/ priority(ran[i]) < priority(ran[k])
            \/ /\ priority(ran[i]) = priority(ran[k])
               /\ Place(ran[i]) < Place(ran[k])

\* C18 witness: the queue holds the job of priority 1, then the effect e2,
\* then the job of priority -1, then the job of priority 0.
QueueOutOfPriorityOrder ==
  effectQ = <<"j1", "e2", "jm", "j0">>

\* the runs in flight in r: promise unsettled and abort signal not aborted
InFlight(r) == {t \in Runs : r.promise[t] = "pending" /\ t \notin r.aborted}

\* C19: the cell never has two runs in flight, and a new run leaves the
\* controller that was current aborted and at most one run in flight.
AtMostOneRunInFlight ==
  /\ Cardinality(InFlight(Start)) <= 1
  /\ currentToken < MaxRuns =>
       \A thrown \in Errors \cup {None} :
         LET r == run(Start, thrown)
         IN r.currentToken <= MaxRuns =>
              /\ Cardinality(InFlight(r)) <= 1
              /\ thrown = None => InFlight(r) # {}
              /\ currentController # 0 => currentController \in r.aborted

\* C19 witness: the promise of the first run and that of the second are both
\* unsettled, and only the second run is in flight.
TwoUnsettledOneInFlight ==
  /\ promise[1] = "pending" /\ promise[2] = "pending"
  /\ currentController = 2 /\ InFlight(Start) = {2}

\* every time the observer of the cell ran in tr, it saw an error only
\* together with the status error
ErrorSeenOnlyInError(tr) ==
  \A i \in 1..Len(Observed(tr)) :
    Observed(tr)[i][2] # "undefined" => Observed(tr)[i][1] = "error"

\* C20: between the calls, and whenever an observer runs during a call, the
\* error of the cell is undefined unless its status is error.
ErrorOnlyInErrorStatus ==
  /\ value["cell.error"] # "undefined" => value["cell.status"] = "error"
  /\ ErrorSeenOnlyInError(cancel(Start, "user").trace)
  /\ currentToken < MaxRuns =>
       \A thrown \in Errors \cup {None} :
         ErrorSeenOnlyInError(run(Start, thrown).trace)
  /\ \A t \in Runs : promise[t] = "pending" =>
       /\ \A v \in Vals : ErrorSeenOnlyInError(thenFulfilled(Start, t, v).trace)
       /\ \A err \in Errors :
            ErrorSeenOnlyInError(thenRejected(Start, t, err).trace)

\* C21: when a run starts, the observer of the cell sees first (unless the
\* cell shows just that already) the status pending with no error, and with
\* the value the cell held if
\* keepPreviousValueOnPending is true or was not passed, undefined if it is
\* false; that is also what the cell holds once run has returned with a
\* promise.
RunStartsPending ==
  currentToken < MaxRuns =>
    \A thrown \in Errors \cup {None} :
      LET r == run(Start, thrown)
          kept == IF "keepPreviousValueOnPending" \in DOMAIN options
                     /\ ~options["keepPreviousValueOnPending"]
                  THEN Undef ELSE value["cell.value"]
          obs == Observed(r.trace)
          now == <<value["cell.status"], value["cell.error"], value["cell.value"]>>
      IN /\ now # <<"pending", "undefined", kept>> =>
              obs # <<>> /\ obs[1] = <<"pending", "undefined", kept>>
         /\ thrown = None =>
              /\ r.value["cell.status"] = "pending"
              /\ r.value["cell.error"] = "undefined"
              /\ r.value["cell.value"] = kept

\* C21 witness: a cell made without keepPreviousValueOnPending holds the 1
\* of its first run while its second run is pending.
PendingWithPreviousValue ==
  /\ "keepPreviousValueOnPending" \notin DOMAIN options
  /\ currentToken = 2 /\ promise[1] = "fulfilled" /\ promise[2] = "pending"
  /\ value["cell.status"] = "pending" /\ value["cell.value"] = 1

\* the calls of the fetcher that tr shows, each with its token and source
Fetches(tr) == SelectSeq(tr, LAMBDA ev : ev[1] = "makePromise")

\* C22: createResource calls the fetcher once at construction whatever
\* options it got, with the source of that moment; and two source writes
\* followed by one flush call it once more, with the source then current,
\* if the effect of the resource was queued by then, and not at all if not.
FetcherCalledOncePerRun ==
  /\ \A opts \in Options :
       Fetches(createResource(Blank, opts).trace) = <<<<"makePromise", 1, 0>>>>
  /\ currentToken < MaxRuns =>
       \A v1 \in Vals, v2 \in Vals :
         LET f == flushJobsTwoPhase(
                    signalSet(signalSet(Start, "x", v1), "x", v2))
         IN Fetches(f.trace) =
              IF "res" \in Range(effectQ) \/ v1 # value["x"] \/ v2 # v1
              THEN <<<<"makePromise", currentToken + 1, v2>>>>
              ELSE <<>>

\* C22 witness: the resource has fetched a second time, for the source 2,
\* and no run of its effect is queued.
RefetchedForLatestSource ==
  /\ initialized /\ currentToken = 2 /\ currentSource = 2
  /\ value["x"] = 2 /\ effectQ = <<>> /\ microtasks = 0

\* the runtime state in which the callback fn of a batch ends
Inside(fn) ==
  exec(Log([Start EXCEPT !.batchDepth = @ + 1], <<"enter", "batch">>), fn, 1)

\* C23: when the callback of a batch throws, batchDepth is what it was
\* before the call, the caller gets an exception, and if that depth is zero
\* every job that stood in the effect queue when the callback threw has run
\* and the queue is empty.
BatchThrowStillFlushes ==
  \A fn \in Plain(Signals) :
    fn[Len(fn)] = <<"throw">> =>
      LET r == batch(Start, fn)
      IN /\ r.batchDepth = batchDepth
         /\ r.err # None
         /\ batchDepth = 0 =>
              /\ r.effectQ = <<>>
              /\ \A e \in Range(Inside(fn).effectQ) :
                   ~disposed[e] => At(r.trace, "run", e) # {}

\* the cleanups of e that tr shows called, in order
Called(tr, e) ==
  LET evs == SelectSeq(tr, LAMBDA ev : ev[1] = "cleanup" /\ ev[2] = e)
  IN [i \in 1..Len(evs) |-> evs[i][3]]

Reverse(q) == [i \in 1..Len(q) |-> q[Len(q) + 1 - i]]

\* the state r with an empty trace
Quiet(r) == [r EXCEPT !.trace = <<>>]

\* the cleanups that e5 holds are called once, newest first, before its
\* function starts again in the flush that finds it queued, or at dispose,
\* and not again after that
HeldCleanupsRunOnce ==
  ~disposed["e5"] =>
    LET d == effectDispose(Start, "e5")
    IN /\ Called(d.trace, "e5") = Reverse(cleanups["e5"])
       /\ Called(effectDispose(Quiet(d), "e5").trace, "e5") = <<>>
       /\ \A v \in Vals :
            Called(flushJobsTwoPhase(signalSet(Quiet(d), "a", v)).trace, "e5") = <<>>
       /\ "e5" \in Range(effectQ) =>
            LET r == flushJobsTwoPhase(Start)
            IN /\ Called(r.trace, "e5") = Reverse(cleanups["e5"])
               /\ \A i \in At(r.trace, "cleanup", "e5"),
                     j \in At(r.trace, "run", "e5") : i < j

\* the three cleanups that a run of e5 registers (two through onCleanup, one
\* returned) are the ones called before the run after it, or at dispose
RegisteredCleanupsRun ==
  (~disposed["e5"] /\ "e5" \in Range(effectQ)) =>
    LET r == Quiet(flushJobsTwoPhase(Start))
    IN /\ Called(effectDispose(r, "e5").trace, "e5") = <<"k3", "k2", "k1">>
       /\ \A v \in Vals \ {r.value["a"]} :
            Called(flushJobsTwoPhase(signalSet(r, "a", v)).trace, "e5")
              = <<"k3", "k2", "k1">>

\* C24: every cleanup registered during a run of e5 is called exactly once,
\* newest first, before the next run of e5 or at its dispose.
CleanupsRunOnceNewestFirst == HeldCleanupsRunOnce /\ RegisteredCleanupsRun


\* C25: a flush that returns leaves the scheduled flag false and has armed
\* no microtask flush, whatever its jobs handed to scheduleJob, and has
\* drained every job so scheduled.
FlushAbsorbsScheduling ==
  LET r == flushJobsTwoPhase(Start)
  IN r.err = None =>
       /\ r.computeQ = <<>> /\ r.effectQ = <<>>
       /\ ~r.scheduled
       /\ r.microtasks = microtasks


\* the entries into flushJobsTwoPhase that tr shows
Flushes(tr) == SelectSeq(tr, LAMBDA ev : ev[1] = "flush")

\* C26: during a flush flushJobsTwoPhase is entered once only: what the
\* effects of the flush trigger, a batch() inside an effect included, is run
\* by the loop of that flush and by no flush inside it.
FlushNotReentered ==
  Len(Flushes(flushJobsTwoPhase(Start).trace)) = 1


\* the places in tr at which an effect wave begins
Waves(tr) == {i \in 1..Len(tr) : tr[i][1] = "wave"}

\* the places in tr at which the plain job j runs
RunsOf(tr, j) == {i \in 1..Len(tr) : tr[i] = <<"run", j>>}

\* the place after i at which the next effect wave begins, or the end of tr
NextWave(tr, i) ==
  IF \E w \in Waves(tr) : w > i
  THEN CHOOSE w \in Waves(tr) : w > i /\ \A u \in Waves(tr) : u > i => w <= u
  ELSE Len(tr) + 1

\* C27: in a flush every effect wave begins with computeQ empty; the jobs of
\* kind computed queued at the start, and those they scheduled, have run
\* before the first wave; and a job of kind computed scheduled by a job of a
\* wave runs after every job of that wave and before the next wave begins.
ComputedBeforeEffectWave ==
  LET r  == flushJobsTwoPhase(Start)
      tr == r.trace
  IN /\ \A w \in Waves(tr) : tr[w][2] = <<>>
     /\ \A w \in Waves(tr) : \A j \in Range(computeQ) :
          /\ \E i \in RunsOf(tr, j) : i < w
          /\ j \in DOMAIN Produces =>
               \E i \in RunsOf(tr, j) : \E k \in RunsOf(tr, Produces[j]) :
                 i < k /\ k < NextWave(tr, 0)
     /\ \A j \in EffectJobs \cap DOMAIN Produces : \A i \in RunsOf(tr, j) :
          (Produces[j] \in ComputedJobs
             /\ (r.err = None \/ NextWave(tr, i) <= Len(tr))) =>
            \E k \in RunsOf(tr, Produces[j]) :
              /\ i < k /\ k < NextWave(tr, i)
              /\ \A m \in i..NextWave(tr, i) - 1 :
                   (tr[m][1] = "run" /\ tr[m][2] \in EffectJobs) => m < k

\* C27 witness: a job of kind computed that schedules another is queued
\* together with a wave of two jobs, the first of which schedules a job of
\* kind computed.
ComputedScheduledInBothPhases ==
  /\ computeQ = <<"cs">>
  /\ effectQ = <<"es", "ef">>


\* C28: every flush returns or throws; one whose jobs keep scheduling
\* themselves throws InfiniteUpdateLoop.
FlushTerminates ==
  LET r == flushJobsTwoPhase(Start)
  IN /\ r.err # "NeverReturns"
     /\ ("cc" \in Range(computeQ) \/ "el" \in Range(effectQ)) =>
          r.err = "InfiniteUpdateLoop"

\* a flush whose only job that schedules itself is of kind effect throws
\* InfiniteUpdateLoop
EffectLoopIsStopped ==
  ("el" \in Range(effectQ) /\ "cc" \notin Range(computeQ)) =>
    flushJobsTwoPhase(Start).err = "InfiniteUpdateLoop"


Closed == atomicLogs = <<>> /\ atomicDepth = 0

\* two writes of different signals
Apart == {<<wA, wB>> \in Writes(Signals) \X Writes(Signals) : wA[2] # wB[2]}

\* an atomic whose callback writes wA is open and other code has written wB
Meanwhile(wA, wB) == signalSet(atomicPromise(Start, <<wA>>), wB[2], wB[3])

\* an atomic whose callback writes wA is open, and inside it one whose
\* callback writes wB; one of the two promises rejects and then the other
\* resolves
Overlapped(wA, wB) ==
  onResolve([onReject(atomicPromise(atomicPromise(Start, <<wA>>), <<wB>>),
                      "Boom") EXCEPT !.err = None])

\* when the promise rejects, the signal the callback wrote is restored
RejectRestoresOwnWrite ==
  Closed => \A w \in Apart :
    onReject(Meanwhile(w[1], w[2]), "Boom").value[w[1][2]] = value[w[1][2]]

\* when the promise rejects, what other code wrote is left as it is
RejectLeavesOtherWrites ==
  Closed => \A w \in Apart :
    onReject(Meanwhile(w[1], w[2]), "Boom").value[w[2][2]] = w[2][3]

\* when the promise resolves, the writes are kept
ResolveKeepsWrites ==
  Closed => \A w \in Apart :
    LET r == onResolve(Meanwhile(w[1], w[2]))
    IN r.value[w[1][2]] = w[1][3] /\ r.value[w[2][2]] = w[2][3]

\* of two open atomics the second to be opened rejects and the first resolves
SecondOpenedRejects ==
  Closed => \A w \in Apart :
    LET r == Overlapped(w[1], w[2])
    IN r.value[w[1][2]] = w[1][3] /\ r.value[w[2][2]] = value[w[2][2]]

\* of two open atomics the first to be opened rejects and the second resolves
FirstOpenedRejects ==
  Closed => \A w \in Apart :
    LET r == Overlapped(w[1], w[2])
    IN r.value[w[1][2]] = value[w[1][2]] /\ r.value[w[2][2]] = w[2][3]

\* C30: for an atomic whose callback returns a promise, a rejection restores
\* the signal the callback wrote to the value it had when the atomic was
\* entered and leaves what other code wrote, and a resolution keeps the
\* writes; with two such atomics open at once, the one that rejects restores
\* its own write and the one that resolves keeps its own, whichever of the
\* two rejects.
AsyncAtomicRestoresOwnWrites ==
  /\ RejectRestoresOwnWrite
  /\ RejectLeavesOtherWrites
  /\ ResolveKeepsWrites
  /\ SecondOpenedRejects
  /\ FirstOpenedRejects

\* C31: an effect that is not disposed holds every cleanup that its last run
\* registered: e5 holds k1, then k2, which it passes to onCleanup after its
\* batch has flushed and run other effects, then the k3 it returned.
OnCleanupRegistersOnOuterEffect ==
  ~disposed["e5"] => cleanups["e5"] = <<"k1", "k2", "k3">>

\* the callbacks that write, then run an atomic that writes and throws, and
\* catch what it throws
InnerRollbacks(S) ==
  {fn \in Nested(S) : fn[2][1] = "atomic" /\ Len(fn[2][2]) = 2}

\* C32: when a nested atomic has rolled back and the enclosing atomic goes
\* on, every signal holds what the enclosing callback had written before the
\* nested atomic was entered, or else what it held before the enclosing
\* atomic; and when the enclosing callback then throws, every signal
\* holds again what it held before the enclosing atomic.
InnerRollbackKeepsOuterWrites ==
  \A fn \in InnerRollbacks(Signals) :
    LET m == exec(Opened, fn, 1)
        r == atomic(Start, Append(fn, <<"throw">>))
    IN /\ m.err = None
       /\ \A s \in Signals :
            m.value[s] = IF s = fn[1][2] THEN fn[1][3] ELSE value[s]
       /\ \A s \in Signals : r.value[s] = value[s]

\* the same while atomicDepth counts the open atomics
InnerRollbackKeepsOuterWritesUnskewed ==
  atomicDepth = 0 => InnerRollbackKeepsOuterWrites

\* what e7 and the function of s read while a and x hold what g holds
ReadNow(g) == IF g.value["a"] = 0 THEN {"a", "x"} ELSE {"a"}

\* in g the deps of n are the set ds, and n subscribes to just these
LinkedTo(g, n, ds) ==
  /\ g.deps[n] = ds
  /\ \A src \in Nodes : n \in Range(g.subs[src]) <=> src \in ds

\* C33: after a run of e7 its deps are the signals that run read, and after
\* a recomputation of s its deps are the signals its function read, whatever
\* an earlier run read; a write of a signal that is no dep then queues no
\* job and marks nothing stale.
DepsAreLastReads ==
  /\ "e7" \notin Range(effectQ) => LinkedTo(Start, "e7", ReadNow(Start))
  /\ ~stale["s"] => LinkedTo(Start, "s", ReadNow(Start))
  /\ LET r == flushJobsTwoPhase(Start)
     IN /\ LinkedTo(r, "e7", ReadNow(r))
        /\ LinkedTo(r, "e8", {"s"})
        /\ LinkedTo(r, "s", ReadNow(r))
        /\ \A v \in Vals :
             r.value["a"] # 0 =>
               LET w == signalSet(Quiet(r), "x", v)
               IN /\ w.effectQ = <<>> /\ w.stale = r.stale
                  /\ Ran(flushJobsTwoPhase(w).trace) = <<>>
  /\ LET c == computedGet(Start, "s")
     IN LinkedTo(c, "s", ReadNow(c))

\* C33 witness: e7 and s have read x in an earlier run and not in their last.
BranchLeft ==
  /\ value["a"] = 1 /\ value["x"] = 2
  /\ effectQ = <<>> /\ ~stale["s"]
  /\ value["s"] = 1

\* C34: a write of a signal invokes the function of no computed; a get()
\* of a computed that is not stale and has a value invokes no function and
\* returns the value held; any get() invokes the function of its computed at
\* most once, and a second get() right after it invokes no function and
\* returns the same value.
ComputedRunsOnlyOnStaleGet ==
  /\ \A n \in Signals, v \in Vals :
       \A ev \in Range(signalSet(Start, n, v).trace) : ev[1] # "fn"
  /\ \A c \in Computeds :
       LET r1 == computedGet(Start, c)
           r2 == computedGet(Quiet(r1), c)
       IN /\ (~stale[c] /\ hasValue[c]) =>
               /\ \A ev \in Range(r1.trace) : ev[1] # "fn"
               /\ r1.err = None /\ r1.ret = value[c]
          /\ Cardinality(At(r1.trace, "fn", c)) <= 1
          /\ r1.err = None =>
               /\ \A ev \in Range(r2.trace) : ev[1] # "fn"
               /\ r2.err = None /\ r2.ret = r1.ret

\* C34 witness: s holds a value and is not stale, after a and x have been
\* written and the effect that reads s has run.
CachedAfterWrite ==
  /\ ~stale["s"] /\ hasValue["s"]
  /\ value["a"] = 0 /\ value["x"] = 2 /\ value["s"] = 2

ThrowingCleanupIsSwallowed ==
  (~disposed["e5"] /\ "k3" \in Range(cleanups["e5"])) =>
    LET d == effectDispose(Start, "e5")
    IN /\ d.err = None
       /\ Called(d.trace, "e5") = Reverse(cleanups["e5"])
       /\ Count(d.trace, <<"swallowed", "e5", "k3">>) = 1
       /\ d.disposed["e5"] /\ d.deps["e5"] = {} /\ "e5" \notin d.registry
       /\ "e5" \in Range(effectQ) =>
            LET r == flushJobsTwoPhase(Start)
            IN /\ r.err = None
               /\ Called(r.trace, "e5") = Reverse(cleanups["e5"])
               /\ Count(r.trace, <<"swallowed", "e5", "k3">>) = 1
               /\ At(r.trace, "run", "e5") # {}
               /\ \A i \in At(r.trace, "cleanup", "e5"),
                     j \in At(r.trace, "saw", "e5") \cup At(r.trace, "enter", "batch") :
                    i < j

\* C36 witness: e5 is queued and holds k3, the cleanup that throws, as its
\* newest, with an older cleanup to call after it.
ThrowingCleanupHeld ==
  /\ ~disposed["e5"] /\ "e5" \in Range(effectQ)
  /\ Len(cleanups["e5"]) >= 2
  /\ cleanups["e5"][Len(cleanups["e5"])] = "k3"

\* C37: between public calls atomicDepth is the number of write logs on the
\* stack, 0 <= atomicDepth <= batchDepth and muted is 0; and a batch or an
\* atomic, whether it returns or throws, leaves atomicDepth, batchDepth and
\* the stack of logs as it found them.
CountersConsistent ==
  /\ atomicDepth = Len(atomicLogs)
  /\ 0 <= atomicDepth /\ atomicDepth <= batchDepth
  /\ muted = 0
  /\ \A fn \in Plain(Signals) :
       LET b == batch(Start, fn)
           t == atomic(Start, fn)
       IN /\ b.atomicDepth = atomicDepth /\ b.batchDepth = batchDepth
          /\ b.atomicLogs = atomicLogs
          /\ t.atomicDepth = atomicDepth /\ t.batchDepth = batchDepth
          /\ t.atomicLogs = atomicLogs

\* C38: when the callback of a batch or of an atomic changes a signal, then
\* runs an atomic that rolls back, catches what it throws and returns, every
\* effect that is not disposed and has that signal among its deps runs in the
\* flush at the exit of the batch or atomic.
OuterWritesStillNotify ==
  \A fn \in InnerRollbacks(Signals) :
    fn[1][3] # value[fn[1][2]] =>
      LET b == batch(Start, fn)
          t == atomic(Start, fn)
      IN \A e \in Effects :
           (~disposed[e] /\ fn[1][2] \in deps[e]) =>
             /\ b.err = None => At(b.trace, "run", e) # {}
             /\ t.err = None => At(t.trace, "run", e) # {}

\* C39: while a batch or atomic frame is open, a microtask flush that comes
\* due runs no effect.
NoEffectRunsInOpenFrame ==
  (batchDepth > 0 /\ microtasks > 0) =>
    Ran(flushJobsTwoPhase([Start EXCEPT !.microtasks = @ - 1]).trace) = <<>>

\* C40: when the promise of the current run settles, the run neither
\* cancelled nor superseded, the status becomes success on fulfilment and
\* error on rejection; and while the status is pending the current run has a
\* controller that is not aborted and a promise that has not settled.
SettlementLeavesPending ==
  /\ \A t \in Runs :
       (t = currentToken /\ promise[t] = "pending" /\ t \notin aborted) =>
         /\ \A v \in Vals :
              thenFulfilled(Start, t, v).value["cell.status"] = "success"
         /\ \A err \in Errors :
              thenRejected(Start, t, err).value["cell.status"] = "error"
  /\ value["cell.status"] = "pending" =>
       /\ currentController = currentToken
       /\ currentController \notin aborted
       /\ promise[currentToken] = "pending"

====
